---- MODULE Spec2Model ----
(***************************************************************************)
(* Model of src/src/graph.ts and src/src/index.ts: the GraphML loader      *)
(* (parseGraphMl), the graph model (Graph, GraphNode) and the shortest     *)
(* path engine (dijkstra, findShortestPathBetween and its helpers).        *)
(*                                                                         *)
(* GraphNode objects live in a heap: object k is the k-th node created by  *)
(* the loader, name[k] is its name and edgesToNodes[k] its adjacency list. *)
(* Graph.graphNodes is a list of object references.  Object identity       *)
(* (===) is equality of references.                                        *)
(***************************************************************************)
EXTENDS Integers, Sequences, FiniteSets, TLC

\* ---------------------------------------------------------------- bounds
MaxNodes == 3
MaxEdgeRecs == 2
MaxQueries == 2
MaxExtraRewind == 1

\* ------------------------------------------------------ program constants
\* JavaScript's Infinity and NaN, and the null reference.  Every finite
\* number of the model is far below Infinity and far above NaN.
Infinity == 1000000
NaN == -1000000
NULL == 0

\* ------------------------------------------------------------- documents
\* What the XML parser hands to parseGraphMl: whether there is a graph tag,
\* the ids of the node tags, and the edge tags (an absent attribute is "",
\* hasData says whether the edge has a data child, val is its text).
IdPool == <<"A", "B", "C", "D", "E">>
UnknownName == "Z"

Rec(s, t, d, v) == [source |-> s, target |-> t, hasData |-> d, val |-> v]

SeqsUpTo(S, n) == UNION {[1..k -> S] : k \in 0..n}

\* Node lists: k distinct ids, or k-1 distinct ids and a repeat of the first.
NodeLists ==
    {[j \in 1..k |-> IdPool[j]] : k \in 0..MaxNodes}
    \cup {[j \in 1..k |-> IF j = k THEN IdPool[1] ELSE IdPool[j]] : k \in 2..MaxNodes}

\* Edge records with weights 1 and 2 between two of the first MaxNodes ids.
BulkRecords ==
    {Rec(IdPool[p[1]], IdPool[p[2]], TRUE, w) :
        p \in {q \in (1..MaxNodes) \X (1..MaxNodes) : q[1] < q[2]},
        w \in {"1", "2"}}

\* Records that only appear last in a document: the malformed ones, the odd
\* weights, a self loop and an endpoint that is no node.
TailRecords ==
    { Rec("", "B", TRUE, "1"), Rec("A", "", TRUE, "1"),
      Rec("A", "B", FALSE, ""),
      Rec("A", "B", TRUE, "abc"), Rec("A", "B", TRUE, ""),
      Rec("A", "B", TRUE, "0"), Rec("A", "B", TRUE, "-1"),
      Rec("A", "B", TRUE, "Infinity"),
      Rec("A", "A", TRUE, "1"), Rec("A", UnknownName, TRUE, "1") }

EdgeLists ==
    SeqsUpTo(BulkRecords, MaxEdgeRecs)
    \cup {Append(es, r) : es \in SeqsUpTo(BulkRecords, MaxEdgeRecs - 1), r \in TailRecords}

\* Scenario 1 of the specification, and a graph with two shortest paths
\* between A and D.
Scenario1Doc ==
    [hasGraph |-> TRUE, nodes |-> <<"A", "B", "C", "D", "E">>,
     edges |-> << Rec("A", "B", TRUE, "4"), Rec("A", "C", TRUE, "2"),
                  Rec("C", "B", TRUE, "1"), Rec("B", "D", TRUE, "5"),
                  Rec("C", "D", TRUE, "8"), Rec("D", "E", TRUE, "3"),
                  Rec("B", "E", TRUE, "10") >>]

DiamondDoc ==
    [hasGraph |-> TRUE, nodes |-> <<"A", "B", "C", "D">>,
     edges |-> << Rec("A", "B", TRUE, "1"), Rec("B", "D", TRUE, "2"),
                  Rec("A", "C", TRUE, "2"), Rec("C", "D", TRUE, "1") >>]

Documents ==
    {[hasGraph |-> FALSE, nodes |-> <<>>, edges |-> <<>>]}
    \cup {[hasGraph |-> TRUE, nodes |-> ns, edges |-> es] :
            ns \in NodeLists, es \in EdgeLists}
    \cup {Scenario1Doc, DiamondDoc}

\* ----------------------------------------------------------------- state
VARIABLES
    doc,              \* the parsed GraphML document
    pc,               \* where the program is
    idx,              \* the forEach index of the loader
    name,             \* heap: GraphNode.name of each node object
    edgesToNodes,     \* heap: GraphNode.edgesToNodes of each node object
    graphNodes,       \* Graph.graphNodes; `unvisited` is the same array
    lookupTable,      \* the query's lookup table
    visited,          \* the query's visited list
    graphNodesLength, \* the node count taken at the start of the query
    startNode,        \* the resolved start node, or NULL
    targetNode,       \* the resolved target node, or NULL
    nodeToCheck,      \* the node the path rewind stands on
    pathNames,        \* the names collected by the rewind
    result,           \* what the last operation returned or threw
    query,            \* the names the caller passed to dijkstra
    queries,          \* how many times dijkstra was called
    graphAtStart,     \* the node list and adjacency lists when the query was called
    outcomes          \* what each finished call of dijkstra returned or threw

vars == <<doc, pc, idx, name, edgesToNodes, graphNodes, lookupTable, visited,
          graphNodesLength, startNode, targetNode, nodeToCheck, pathNames,
          result, query, queries, graphAtStart, outcomes>>

loaderVars == <<doc, name, edgesToNodes, graphNodes>>
queryVars == <<lookupTable, visited, graphNodesLength, startNode, targetNode,
               nodeToCheck, pathNames, query, queries, graphAtStart, outcomes>>

NoResult == [status |-> "none", error |-> "", nodeNames |-> <<>>, shortestDistance |-> 0]
Thrown(e) == [status |-> "error", error |-> e, nodeNames |-> <<>>, shortestDistance |-> 0]
Returned(p, d) == [status |-> "ok", error |-> "", nodeNames |-> p, shortestDistance |-> d]

\* ------------------------------------------------------------ JavaScript
\* Number(text): the decimal numeral's value, 0 for the empty string,
\* Infinity for "Infinity", NaN for text that is no number.
Number(val) ==
    IF val = "" THEN 0
    ELSE IF val = "Infinity" THEN Infinity
    ELSE IF \E n \in -20..20 : ToString(n) = val
         THEN CHOOSE n \in -20..20 : ToString(n) = val
         ELSE NaN

\* !x for a number x: 0 and NaN are falsy.
Falsy(x) == x = 0 \/ x = NaN

\* a + b on numbers that may be Infinity.
Plus(a, b) == IF a = Infinity \/ b = Infinity THEN Infinity ELSE a + b

Reverse(s) == [j \in 1..Len(s) |-> s[Len(s) + 1 - j]]

\* Array.prototype.splice(i, 1).
Splice(s, i) == [j \in 1..(Len(s) - 1) |-> IF j < i THEN s[j] ELSE s[j + 1]]

\* Array.prototype.indexOf, 1-based; 0 when absent.
IndexOf(s, x) ==
    IF \E j \in 1..Len(s) : s[j] = x
    THEN CHOOSE j \in 1..Len(s) : s[j] = x /\ \A h \in 1..(j - 1) : s[h] # x
    ELSE 0

\* ------------------------------------------------------------ graph model
\* graph.getGraphNodesList().find(n => n.getName() === nm): first match.
FindByName(names, nodes, nm) ==
    IF \E j \in 1..Len(nodes) : names[nodes[j]] = nm
    THEN nodes[CHOOSE j \in 1..Len(nodes) :
                 /\ names[nodes[j]] = nm
                 /\ \A h \in 1..(j - 1) : names[nodes[h]] # nm]
    ELSE NULL

\* GraphNode.addAdjacentWeightedNode on node object n.
addAdjacentWeightedNode(edges, n, tgt, w) ==
    [edges EXCEPT ![n] = Append(@, [targetNode |-> tgt, weight |-> w])]

\* ------------------------------------------------------------ the loader
Init ==
    /\ doc \in Documents
    /\ pc = "parse"
    /\ idx = 0
    /\ name = <<>>
    /\ edgesToNodes = <<>>
    /\ graphNodes = <<>>
    /\ lookupTable = <<>>
    /\ visited = <<>>
    /\ graphNodesLength = 0
    /\ startNode = NULL
    /\ targetNode = NULL
    /\ nodeToCheck = NULL
    /\ pathNames = <<>>
    /\ result = NoResult
    /\ query = <<"", "">>
    /\ queries = 0
    /\ graphAtStart = [graphNodes |-> <<>>, edgesToNodes |-> <<>>]
    /\ outcomes = <<>>

\* The error of the checks parseGraphMl makes before it reads a node tag.
ParseStartError(d) ==
    IF ~d.hasGraph THEN "MissingGraphSection"
    ELSE IF Len(d.nodes) < 2 THEN "InsufficientNodes"
    ELSE ""

ParseStart ==
    /\ pc = "parse"
    /\ IF ParseStartError(doc) # ""
       THEN /\ pc' = "loadFailed"
            /\ result' = Thrown(ParseStartError(doc))
            /\ idx' = idx
       ELSE /\ pc' = "nodes"
            /\ idx' = 1
            /\ result' = result
    /\ UNCHANGED <<loaderVars, queryVars>>

\* One iteration of nodes.forEach: a new GraphNode is pushed on the graph.
ParseNode ==
    /\ pc = "nodes"
    /\ idx <= Len(doc.nodes)
    /\ name' = Append(name, doc.nodes[idx])
    /\ edgesToNodes' = Append(edgesToNodes, <<>>)
    /\ graphNodes' = Append(graphNodes, Len(name) + 1)
    /\ idx' = idx + 1
    /\ UNCHANGED <<doc, pc, result, queryVars>>

ParseEdgesStart ==
    /\ pc = "nodes"
    /\ idx > Len(doc.nodes)
    /\ IF Len(doc.edges) = 0
       THEN /\ pc' = "loadFailed"
            /\ result' = Thrown("MissingEdges")
            /\ idx' = idx
       ELSE /\ pc' = "edges"
            /\ idx' = 1
            /\ result' = result
    /\ UNCHANGED <<loaderVars, queryVars>>

\* The error one edge tag raises, "" when it raises none.
EdgeError(edge, names, nodes) ==
    IF edge.source = "" \/ edge.target = "" THEN "MalformedEdge"
    ELSE IF ~edge.hasData THEN "MissingWeightData"
    ELSE IF Falsy(Number(edge.val)) THEN "InvalidWeight"
    ELSE IF FindByName(names, nodes, edge.source) = NULL
            \/ FindByName(names, nodes, edge.target) = NULL
         THEN "UnknownEdgeEndpoint"
    ELSE ""

\* The two pushes of one edge tag: source first, then target.
AddEdge(edges, names, nodes, edge) ==
    LET s == FindByName(names, nodes, edge.source)
        t == FindByName(names, nodes, edge.target)
        w == Number(edge.val)
    IN  addAdjacentWeightedNode(addAdjacentWeightedNode(edges, s, t, w), t, s, w)

\* One iteration of edges.forEach.
ParseEdge ==
    /\ pc = "edges"
    /\ idx <= Len(doc.edges)
    /\ LET edge == doc.edges[idx]
           err == EdgeError(edge, name, graphNodes)
       IN  IF err # ""
           THEN /\ pc' = "loadFailed"
                /\ result' = Thrown(err)
                /\ UNCHANGED <<idx, edgesToNodes>>
           ELSE /\ edgesToNodes' = AddEdge(edgesToNodes, name, graphNodes, edge)
                /\ idx' = idx + 1
                /\ UNCHANGED <<pc, result>>
    /\ UNCHANGED <<doc, name, graphNodes, queryVars>>

ParseReturn ==
    /\ pc = "edges"
    /\ idx > Len(doc.edges)
    /\ pc' = "loaded"
    /\ UNCHANGED <<idx, result, loaderVars, queryVars>>

\* ------------------------------------------------- shortest path engine
\* Mutant: the start node's distance is not set to 0.
initLookupTable_AllInfinity(nodes, start) ==
    [j \in 1..Len(nodes) |->
        [node |-> nodes[j],
         shortestDistanceToTargetNode |-> Infinity,
         previousNode |-> NULL]]

initLookupTable(nodes, start) ==
    [j \in 1..Len(nodes) |->
        [node |-> nodes[j],
         shortestDistanceToTargetNode |-> IF nodes[j] = start THEN 0 ELSE Infinity,
         previousNode |-> NULL]]

\* The scan of findNodeWithSmallestKnownDistance from entry i on: `best` is
\* replaced only by an entry with a strictly smaller distance.
RECURSIVE SmallestFrom(_, _, _)
SmallestFrom(filtered, i, best) ==
    IF i > Len(filtered) THEN best
    ELSE SmallestFrom(filtered, i + 1,
            IF filtered[i].shortestDistanceToTargetNode < best.shortestDistanceToTargetNode
            THEN filtered[i] ELSE best)

IsUnvisited(unvisited, entry) == \E j \in 1..Len(unvisited) : unvisited[j] = entry.node

\* Mutant: the first unvisited entry is returned without the scan.
findNodeWithSmallestKnownDistance_First(table, unvisited) ==
    LET filtered == SelectSeq(table, LAMBDA e : IsUnvisited(unvisited, e))
    IN  IF Len(filtered) = 0 THEN NULL ELSE filtered[1].node

\* The node it returns; NULL stands for the Error it throws when the
\* filtered table is empty.
findNodeWithSmallestKnownDistance(table, unvisited) ==
    LET filtered == SelectSeq(table, LAMBDA e : IsUnvisited(unvisited, e))
    IN  IF Len(filtered) = 0 THEN NULL
        ELSE SmallestFrom(filtered, 1, filtered[1]).node

\* Index of the first table entry of the node; 0 stands for null.
getTableEntryforNode(table, n) ==
    IF \E j \in 1..Len(table) : table[j].node = n
    THEN CHOOSE j \in 1..Len(table) :
            table[j].node = n /\ \A h \in 1..(j - 1) : table[h].node # n
    ELSE 0

\* Mutant: the new distance is the edge weight alone.
RelaxEdge_NoAccumulate(table, graphNode, edgeToNode) ==
    LET adj == getTableEntryforNode(table, edgeToNode.targetNode)
        newDistance == edgeToNode.weight
    IN  IF newDistance < table[adj].shortestDistanceToTargetNode
        THEN [table EXCEPT ![adj].previousNode = graphNode,
                           ![adj].shortestDistanceToTargetNode = newDistance]
        ELSE table

\* One iteration of the forEach of checkNeighboringNodes.  The entry of the
\* selected node is read from the table as it is now.
RelaxEdge(table, graphNode, edgeToNode) ==
    LET me == getTableEntryforNode(table, graphNode)
        adj == getTableEntryforNode(table, edgeToNode.targetNode)
        newDistance == Plus(table[me].shortestDistanceToTargetNode, edgeToNode.weight)
    IN  IF newDistance < table[adj].shortestDistanceToTargetNode
        THEN [table EXCEPT ![adj].previousNode = graphNode,
                           ![adj].shortestDistanceToTargetNode = newDistance]
        ELSE table

RECURSIVE RelaxFrom(_, _, _, _)
RelaxFrom(table, graphNode, edges, k) ==
    IF k > Len(edges) THEN table
    ELSE RelaxFrom(RelaxEdge(table, graphNode, edges[k]), graphNode, edges, k + 1)

checkNeighboringNodes(table, graphNode, edges) == RelaxFrom(table, graphNode, edges, 1)

\* checkNeighboringNodes dereferences a null table entry.
MissingEntry(table, graphNode, edges) ==
    \/ getTableEntryforNode(table, graphNode) = 0
    \/ \E k \in 1..Len(edges) : getTableEntryforNode(table, edges[k].targetNode) = 0

\* The error dijkstra and the entry check of findShortestPathBetween raise.
QueryError(names, nodes, s, t) ==
    LET sN == FindByName(names, nodes, s)
        tN == FindByName(names, nodes, t)
    IN  IF sN = NULL \/ tN = NULL THEN "UnknownNode"
        ELSE IF IndexOf(nodes, sN) = 0 \/ IndexOf(nodes, tN) = 0 THEN "UnknownNode"
        ELSE ""

\* dijkstra(graph, s, t) up to the start of the main loop.
Call(s, t) ==
    LET sN == FindByName(name, graphNodes, s)
        tN == FindByName(name, graphNodes, t)
        err == QueryError(name, graphNodes, s, t)
    IN  /\ query' = <<s, t>>
        /\ queries' = queries + 1
        /\ graphAtStart' = [graphNodes |-> graphNodes, edgesToNodes |-> edgesToNodes]
        /\ startNode' = sN
        /\ targetNode' = tN
        /\ visited' = <<>>
        /\ pathNames' = <<>>
        /\ nodeToCheck' = NULL
        /\ IF err # ""
           THEN /\ pc' = "thrown"
                /\ result' = Thrown(err)
                /\ outcomes' = Append(outcomes, Thrown(err))
                /\ UNCHANGED <<lookupTable, graphNodesLength>>
           ELSE /\ pc' = "loop"
                /\ result' = NoResult
                /\ lookupTable' = initLookupTable(graphNodes, sN)
                /\ graphNodesLength' = Len(graphNodes)
                /\ outcomes' = outcomes
        /\ UNCHANGED <<idx, loaderVars>>

\* The host program's call on the graph the loader returned.
Dijkstra ==
    /\ pc = "loaded"
    /\ \E s \in {doc.nodes[j] : j \in 1..Len(doc.nodes)} \cup {UnknownName},
          t \in {doc.nodes[j] : j \in 1..Len(doc.nodes)} \cup {UnknownName} :
          Call(s, t)

\* The same query again on the same Graph instance.
Repeat ==
    /\ pc \in {"returned", "thrown"}
    /\ queries < MaxQueries
    /\ Call(query[1], query[2])

\* One test of the main loop's condition and, when it holds, one iteration.
LoopStep ==
    /\ pc = "loop"
    /\ IF Len(visited) < graphNodesLength
       THEN LET nextNode == findNodeWithSmallestKnownDistance(lookupTable, graphNodes)
            IN  IF nextNode = NULL
                THEN /\ pc' = "thrown"
                     /\ result' = Thrown("EmptyFrontier")
                     /\ outcomes' = Append(outcomes, Thrown("EmptyFrontier"))
                     /\ UNCHANGED <<lookupTable, visited, graphNodes, nodeToCheck>>
                ELSE IF MissingEntry(lookupTable, nextNode, edgesToNodes[nextNode])
                THEN /\ pc' = "thrown"
                     /\ result' = Thrown("TypeError")
                     /\ outcomes' = Append(outcomes, Thrown("TypeError"))
                     /\ UNCHANGED <<lookupTable, visited, graphNodes, nodeToCheck>>
                ELSE /\ lookupTable' =
                            checkNeighboringNodes(lookupTable, nextNode, edgesToNodes[nextNode])
                     /\ visited' = Append(visited, nextNode)
                     /\ graphNodes' = Splice(graphNodes, IndexOf(graphNodes, nextNode))
                     /\ UNCHANGED <<pc, result, outcomes, nodeToCheck>>
       ELSE /\ pc' = "rewind"
            /\ nodeToCheck' = targetNode
            /\ UNCHANGED <<lookupTable, visited, graphNodes, result, outcomes>>
    /\ UNCHANGED <<doc, idx, name, edgesToNodes, graphNodesLength, startNode,
                   targetNode, pathNames, query, queries, graphAtStart>>

\* What findShortestPathBetween returns once the rewind stands on the start.
PathResult(names, table, collected, start, target) ==
    Returned(Reverse(Append(collected, names[start])),
             table[getTableEntryforNode(table, target)].shortestDistanceToTargetNode)

\* One test of the rewind loop's condition and, when it holds, one iteration;
\* when it fails, the return.  Reading the name of null is a TypeError.
RewindStep ==
    /\ pc = "rewind"
    /\ IF nodeToCheck # startNode
       THEN IF nodeToCheck = NULL \/ getTableEntryforNode(lookupTable, nodeToCheck) = 0
            THEN /\ pc' = "thrown"
                 /\ result' = Thrown("TypeError")
                 /\ outcomes' = Append(outcomes, Thrown("TypeError"))
                 /\ UNCHANGED <<pathNames, nodeToCheck>>
            ELSE /\ Len(pathNames) < graphNodesLength + MaxExtraRewind
                 /\ pathNames' = Append(pathNames, name[nodeToCheck])
                 /\ nodeToCheck' =
                        lookupTable[getTableEntryforNode(lookupTable, nodeToCheck)].previousNode
                 /\ UNCHANGED <<pc, result, outcomes>>
       ELSE /\ pc' = "returned"
            /\ pathNames' = Append(pathNames, name[startNode])
            /\ result' = PathResult(name, lookupTable, pathNames, startNode, targetNode)
            /\ outcomes' = Append(outcomes, result')
            /\ UNCHANGED nodeToCheck
    /\ UNCHANGED <<doc, idx, name, edgesToNodes, graphNodes, lookupTable, visited,
                   graphNodesLength, startNode, targetNode, query, queries,
                   graphAtStart>>

Next ==
    \/ ParseStart
    \/ ParseNode
    \/ ParseEdgesStart
    \/ ParseEdge
    \/ ParseReturn
    \/ Dijkstra
    \/ Repeat
    \/ LoopStep
    \/ RewindStep

Spec == Init /\ [][Next]_vars

\* --------------------------------------- the engine as one computation
\* The main loop from `count` visited nodes on: the table it leaves, or
\* <<>> when an iteration throws.
RECURSIVE MainLoop(_, _, _, _, _)
MainLoop(table, unvisited, count, n, edges) ==
    IF count >= n THEN table
    ELSE LET nextNode == findNodeWithSmallestKnownDistance(table, unvisited)
         IN  IF nextNode = NULL \/ MissingEntry(table, nextNode, edges[nextNode]) THEN <<>>
             ELSE MainLoop(checkNeighboringNodes(table, nextNode, edges[nextNode]),
                           Splice(unvisited, IndexOf(unvisited, nextNode)),
                           count + 1, n, edges)

\* The rewind from node n on; it gives up as "diverges" after `fuel` steps.
RECURSIVE Rewind(_, _, _, _, _, _, _)
Rewind(names, table, n, start, target, collected, fuel) ==
    IF n = start THEN PathResult(names, table, collected, start, target)
    ELSE IF n = NULL \/ getTableEntryforNode(table, n) = 0 THEN Thrown("TypeError")
    ELSE IF fuel = 0 THEN [NoResult EXCEPT !.status = "diverges"]
    ELSE Rewind(names, table, table[getTableEntryforNode(table, n)].previousNode,
                start, target, Append(collected, names[n]), fuel - 1)

findShortestPathBetween(names, edges, nodes, start, target) ==
    LET table == MainLoop(initLookupTable(nodes, start), nodes, 0, Len(nodes), edges)
    IN  IF table = <<>> THEN Thrown("TypeError")
        ELSE Rewind(names, table, target, start, target, <<>>, Len(nodes))

dijkstra(names, edges, nodes, s, t) ==
    IF QueryError(names, nodes, s, t) # "" THEN Thrown(QueryError(names, nodes, s, t))
    ELSE findShortestPathBetween(names, edges, nodes,
                                 FindByName(names, nodes, s), FindByName(names, nodes, t))

\* The stepwise engine and the computation above agree on every finished call.
StepsAgree ==
    pc \in {"returned", "thrown"} =>
        result = dijkstra(name, graphAtStart.edgesToNodes, graphAtStart.graphNodes,
                          query[1], query[2])

\* ------------------------------------------------- reference definitions
Objects == 1..Len(name)

\* The weights of the adjacency records from a to b.
EdgeWeights(a, b) ==
    {edgesToNodes[a][k].weight :
        k \in {h \in 1..Len(edgesToNodes[a]) : edgesToNodes[a][h].targetNode = b}}

AllWeights == UNION {EdgeWeights(a, b) : a \in Objects, b \in Objects}

PositiveWeights == \A w \in AllWeights : w > 0 /\ w < Infinity

MinOf(S) == CHOOSE x \in S : \A y \in S : x <= y

\* Every sequence of distinct nodes from s to t whose neighbours are joined
\* by an adjacency record.
SimplePaths(s, t) ==
    {p \in UNION {[1..k -> Objects] : k \in 1..Len(name)} :
        /\ p[1] = s
        /\ p[Len(p)] = t
        /\ \A i \in 1..Len(p), j \in 1..Len(p) : i # j => p[i] # p[j]
        /\ \A i \in 1..(Len(p) - 1) : EdgeWeights(p[i], p[i + 1]) # {}}

\* The totals a node sequence can have, one adjacency record per step.
RECURSIVE PathSums(_, _)
PathSums(p, k) ==
    IF k >= Len(p) THEN {0}
    ELSE {Plus(w, rest) : w \in EdgeWeights(p[k], p[k + 1]), rest \in PathSums(p, k + 1)}

\* Brute force: the least total over all paths from s to t.
ShortestDistance(s, t) == MinOf(UNION {PathSums(p, 1) : p \in SimplePaths(s, t)})

MinimumPaths(s, t) ==
    {p \in SimplePaths(s, t) : ShortestDistance(s, t) \in PathSums(p, 1)}

NamesOf(p) == [j \in 1..Len(p) |-> name[p[j]]]

\* The nodes from start to n along the previousNode references of the table.
RECURSIVE Chain(_, _, _, _)
Chain(table, n, start, fuel) ==
    IF n = start THEN <<start>>
    ELSE IF n = NULL \/ fuel = 0 THEN <<>>
    ELSE LET before == Chain(table, table[getTableEntryforNode(table, n)].previousNode,
                             start, fuel - 1)
         IN  IF before = <<>> THEN <<>> ELSE Append(before, n)

\* The graph satisfies the data model: distinct names, positive finite weights.
DistinctNames == \A i \in Objects, j \in Objects : i # j => name[i] # name[j]
ValidGraph == DistinctNames /\ PositiveWeights

InQuery == pc \in {"loop", "rewind", "returned", "thrown"}
Resolved == startNode # NULL /\ targetNode # NULL
TargetEntry == lookupTable[getTableEntryforNode(lookupTable, targetNode)]

\* ----------------------------------------------------------------- claims

\* C1: on a graph whose weights are all strictly positive, a query whose
\* names resolve and whose target is reachable from the start returns, and
\* the distance it returns is the least total weight over all paths from
\* start to target; it is never negative.
C1_DistanceIsMinimum ==
    (/\ pc \in {"returned", "thrown"}
     /\ Resolved
     /\ PositiveWeights
     /\ SimplePaths(startNode, targetNode) # {})
    => /\ pc = "returned"
       /\ result.status = "ok"
       /\ result.shortestDistance = ShortestDistance(startNode, targetNode)
       /\ result.shortestDistance >= 0

\* C1 witness: a returned distance that is smaller than the weight of a
\* direct edge from start to target, on a graph of positive weights.
C1_Witness ==
    /\ pc = "returned"
    /\ PositiveWeights
    /\ Len(result.nodeNames) >= 3
    /\ \E w \in EdgeWeights(startNode, targetNode) : result.shortestDistance < w

\* C2: every returned path begins with the start, ends with the target, is
\* the predecessor chain of the table with every step an adjacency record,
\* and the weights of the records along it add up to the returned distance;
\* on Scenario 1 the query (A, E) returns [A, C, B, D, E] and 11.
C2_PathSum ==
    /\ pc = "returned" =>
          LET p == Chain(lookupTable, targetNode, startNode, Len(lookupTable))
          IN  /\ result.status = "ok"
              /\ p # <<>>
              /\ result.nodeNames = NamesOf(p)
              /\ result.nodeNames[1] = name[startNode]
              /\ result.nodeNames[Len(result.nodeNames)] = name[targetNode]
              /\ \A j \in 1..(Len(p) - 1) : EdgeWeights(p[j], p[j + 1]) # {}
              /\ result.shortestDistance \in PathSums(p, 1)
    /\ (doc = Scenario1Doc /\ query = <<"A", "E">> /\ queries = 1
        /\ pc \in {"returned", "thrown"})
       => result = Returned(<<"A", "C", "B", "D", "E">>, 11)

\* C3: when both names resolve, start differs from target and the main loop
\* has left the target at distance Infinity with no predecessor, the query
\* does not return a result and fails with TargetUnreachable.  Stated for
\* graphs with distinct names and positive finite weights.
C3_TargetUnreachable ==
    (/\ pc \in {"returned", "thrown"}
     /\ ValidGraph
     /\ Resolved
     /\ startNode # targetNode
     /\ Len(visited) = graphNodesLength
     /\ TargetEntry.shortestDistanceToTargetNode = Infinity
     /\ TargetEntry.previousNode = NULL)
    => /\ pc = "thrown"
       /\ result = Thrown("TargetUnreachable")

\* C4: during and after a query the graph's node list and every adjacency
\* list are what they were when the query was called.  Stated for graphs
\* with distinct names and positive finite weights.
C4_GraphUnchanged ==
    (InQuery /\ ValidGraph)
            => /\ graphNodes = graphAtStart.graphNodes
               /\ edgesToNodes = graphAtStart.edgesToNodes

\* C5: the calls of one query repeated on the same graph instance all have
\* the same outcome.  Stated for graphs with distinct names and positive
\* finite weights.
C5_Idempotent ==
    ValidGraph =>
    \A i \in 1..Len(outcomes), j \in 1..Len(outcomes) : outcomes[i] = outcomes[j]

\* The query (target, start) evaluated on the graph as the current query
\* found it.
ReverseQuery ==
    dijkstra(name, graphAtStart.edgesToNodes, graphAtStart.graphNodes, query[2], query[1])

\* C6 as stated: on a graph of positive weights, when the query (A, E) has
\* returned, the query (E, A) on the same graph returns the same distance
\* and exactly the reversed path.
C6_Symmetry ==
    (pc = "returned" /\ PositiveWeights)
    => /\ ReverseQuery.status = "ok"
       /\ ReverseQuery.shortestDistance = result.shortestDistance
       /\ ReverseQuery.nodeNames = Reverse(result.nodeNames)

\* C6 amended: the two distances are equal, the path of (E, A) read
\* backwards is a minimum-weight path from A to E, and the two paths are
\* exact reverses of each other whenever only one path has the minimum
\* total weight.
C6_SymmetryWhenUnique ==
    (pc = "returned" /\ PositiveWeights)
    => /\ ReverseQuery.status = "ok"
       /\ ReverseQuery.shortestDistance = result.shortestDistance
       /\ \E p \in MinimumPaths(startNode, targetNode) :
             NamesOf(p) = Reverse(ReverseQuery.nodeNames)
       /\ Cardinality(MinimumPaths(startNode, targetNode)) = 1
             => ReverseQuery.nodeNames = Reverse(result.nodeNames)

\* C6 witness: a returned path of at least three nodes that is the only
\* minimum-weight path, with another, heavier path between the two nodes.
C6_Witness ==
    /\ pc = "returned"
    /\ PositiveWeights
    /\ Len(result.nodeNames) >= 3
    /\ Cardinality(MinimumPaths(startNode, targetNode)) = 1
    /\ Cardinality(SimplePaths(startNode, targetNode)) >= 2
    /\ ReverseQuery.nodeNames = Reverse(result.nodeNames)

\* C7: every edge record the loader has accepted carries a weight that is a
\* strictly positive finite number, and so does every adjacency record.
C7_WeightsPositiveFinite ==
    /\ \A w \in AllWeights : w > 0 /\ w < Infinity
    /\ pc \in {"edges", "loaded"} =>
          \A j \in 1..(idx - 1) :
             Number(doc.edges[j].val) > 0 /\ Number(doc.edges[j].val) < Infinity

\* C8: in every state of the loader and after it no two nodes of the graph
\* have the same name, and a document with a repeated id fails with
\* DuplicateNode before any edge is processed.
C8_NoDuplicateNames ==
    /\ \A i \in 1..Len(graphNodes), j \in 1..Len(graphNodes) :
          i # j => name[graphNodes[i]] # name[graphNodes[j]]
    /\ (pc = "edges" /\ \E i \in 1..Len(doc.nodes), j \in 1..Len(doc.nodes) :
                            i # j /\ doc.nodes[i] = doc.nodes[j])
       => FALSE

\* C9 as stated: a query with start = target returns [s] and 0 without
\* running the algorithm: no node is selected or removed from the unvisited
\* list and no table entry is relaxed.
C9_SkipsAlgorithm ==
    (InQuery /\ Resolved /\ startNode = targetNode /\ PositiveWeights)
    => /\ visited = <<>>
       /\ graphNodes = graphAtStart.graphNodes
       /\ lookupTable = initLookupTable(graphAtStart.graphNodes, startNode)
       /\ pc = "returned" => result = Returned(<<name[startNode]>>, 0)

\* C9 amended: on a graph of positive weights a finished query (s, s)
\* has returned [s] and 0 when s resolves, after the main loop has selected
\* and removed every node, and has failed with UnknownNode when s does not
\* resolve.
C9_SelfQuery ==
    (pc \in {"returned", "thrown"} /\ query[1] = query[2] /\ PositiveWeights)
    => IF FindByName(name, graphAtStart.graphNodes, query[1]) # NULL
       THEN /\ pc = "returned"
            /\ result = Returned(<<query[1]>>, 0)
            /\ Len(visited) = graphNodesLength
       ELSE result = Thrown("UnknownNode")

\* C9 witness: a query (s, s) on a resolved name has returned.
C9_Witness ==
    /\ pc = "returned"
    /\ query[1] = query[2]
    /\ PositiveWeights
    /\ Len(visited) >= 2

\* C10: the main loop selects each node once, at most N times in all, and
\* the rewind from the target reaches the start within N - 1 steps.
C10_Terminates ==
    /\ InQuery =>
          /\ Len(visited) <= graphNodesLength
          /\ \A i \in 1..Len(visited), j \in 1..Len(visited) :
                i # j => visited[i] # visited[j]
    /\ pc = "rewind" => Len(pathNames) <= graphNodesLength - 1

====
